---- MODULE Spec2Model ----
(***************************************************************************)
(* A model of yuptoo/processor/report_processor.py: one run of             *)
(* process_report over one consumed message.  The run downloads the        *)
(* archive, extracts and cross-validates its slices, classifies every host *)
(* of every accepted slice, and publishes the candidates.                  *)
(*                                                                         *)
(* Strings are modelled by what the code does with them:                   *)
(*   - a file name is a sequence of name fragments (single characters and  *)
(*     the fragments ".json", "metadata.json", "/metadata.json"), so that  *)
(*     Python's `x in name` is a contiguous-subsequence test;              *)
(*   - a JSON value of a host field is a string; the constants Absent,     *)
(*     Null and EmptyList stand for a missing key, null and [].            *)
(* Log calls change no state and are left out; the lookups they evaluate   *)
(* (request_obj['report_platform_id'], host['account']) are kept, because  *)
(* a failed lookup raises.                                                 *)
(***************************************************************************)
EXTENDS Integers, Sequences, FiniteSets, TLC

VARIABLES
    consumed_message,   \* the message handed to process_report
    HOSTS_TRANSFORMATION_ENABLED, \* yuptoo.lib.config value, fixed for the run
    pc,                 \* position inside process_report
    error,              \* the exception that left process_report ("" if none)
    report_tar,         \* download_report's result
    valid_slice_ids,    \* validate_metadata_file's result (the manifest)
    extract_exc,        \* the exception extract_report_slices raised ("" if none)
    report_json_files,  \* extract_report_slices' result
    request_obj,        \* the keys request_obj holds
    slice_idx,          \* index of report_slice in report_json_files
    host_idx,           \* index of host in report_slice['hosts']
    count,              \* line 29
    candidate_hosts,    \* line 30: indices of the hosts appended (references)
    hosts_without_facts,\* line 31: indices of the hosts appended (references)
    transformed_obj,    \* the local of line 40: Unbound until assigned
    next_uuid,          \* the next value uuid.uuid4() returns
    published,          \* the messages handed to producer.produce, in order
    transport_log,      \* what each send_message call did, in order
    http_gets           \* the urls handed to requests.get, in order

vars == <<consumed_message, HOSTS_TRANSFORMATION_ENABLED, pc, error, report_tar,
          valid_slice_ids, extract_exc, report_json_files, request_obj,
          slice_idx, host_idx, count, candidate_hosts, hosts_without_facts,
          transformed_obj, next_uuid, published, transport_log, http_gets>>

-----------------------------------------------------------------------------
(* Bounds of the model *)

\* the longest archive (number of tar members)
MaxFiles == 3

-----------------------------------------------------------------------------
(* Values *)

Absent == "<absent>"
Null == "<null>"
EmptyList == "[]"
Unbound == "<unbound>"

\* Python's truth value of a JSON value: None, '' and [] are false.
Truthy(v) == v \notin {Absent, Null, "", EmptyList}

\* line 98 with its last key forgotten
CANONICAL_FACTS_NoSubscription ==
    <<"insights_client_id", "bios_uuid", "ip_addresses", "mac_addresses",
      "vm_uuid", "etc_machine_id">>

\* lines 98-99
CANONICAL_FACTS == <<"insights_client_id", "bios_uuid", "ip_addresses", "mac_addresses",
                     "vm_uuid", "etc_machine_id", "subscription_manager_id">>

\* the seven identity-fact keys of the data model
IdentityFacts == {"insights_client_id", "bios_uuid", "ip_addresses", "mac_addresses",
                  "vm_uuid", "etc_machine_id", "subscription_manager_id"}

\* the other host keys the code or a modifier reads
OtherKeys == {"system_unique_id", "account", "os_release"}

HostKeys == IdentityFacts \cup OtherKeys

-----------------------------------------------------------------------------
(* Hosts *)

\* A host: its JSON fields f, and the two keys process_report adds.
\* yupana_host_id 0 and report_slice_id NoSliceId stand for a key not set.
NoSliceId == <<Absent>>

MkHost(fields) ==
    [f |-> [k \in HostKeys |-> IF k \in DOMAIN fields THEN fields[k] ELSE Absent],
     yupana_host_id |-> 0,
     report_slice_id |-> NoSliceId]

\* {"bios_uuid": "X", "system_unique_id": "u-1", "account": "acc", "os_release": ...}
HostA == MkHost([bios_uuid |-> "X", system_unique_id |-> "u-1", account |-> "acc",
                 os_release |-> "Red Hat 8.4"])
\* {}
HostB == MkHost([bios_uuid |-> Absent])
\* {"ip_addresses": ["1.2.3.4"], "account": "acc"}: no system_unique_id
HostC == MkHost([ip_addresses |-> "[1.2.3.4]", account |-> "acc"])
\* {"insights_client_id": "i-1", "system_unique_id": "u-2"}: no account
HostD == MkHost([insights_client_id |-> "i-1", system_unique_id |-> "u-2"])
\* {"bios_uuid": "", "mac_addresses": []}
HostE == MkHost([bios_uuid |-> "", mac_addresses |-> EmptyList])

\* has_canonical_facts: the loop over CANONICAL_FACTS from index i on
RECURSIVE HasFactFrom(_, _)
HasFactFrom(host, i) ==
    IF i > Len(CANONICAL_FACTS) THEN FALSE
    ELSE IF Truthy(host.f[CANONICAL_FACTS[i]]) THEN TRUE
    ELSE HasFactFrom(host, i + 1)

has_canonical_facts(host) == HasFactFrom(host, 1)

-----------------------------------------------------------------------------
(* The archive *)

\* Python's `s in t` on strings: s is a contiguous part of t
Contains(t, s) ==
    \E k \in 0..(Len(t) - Len(s)) : \A i \in 1..Len(s) : t[k + i] = s[i]

\* line 213
IsMetadataName(name) ==
    \/ Contains(name, <<"/metadata.json">>)
    \/ name = <<"metadata.json">>

\* line 216: '.json' in file.name
HasJsonSuffix(name) ==
    \E i \in 1..Len(name) : name[i] \in {".json", "metadata.json", "/metadata.json"}

\* a parsed record-slice document
MkDoc(id, hosts) == [report_slice_id |-> id, hosts |-> hosts]
NoDoc == MkDoc(<<>>, <<>>)

\* a tar member: its name and what reading it gives.  kind is
\*   "doc"        UTF-8 text that parses to the JSON object doc
\*   "non_object" UTF-8 text that parses to JSON that is no object (an array)
\*   "not_json"   UTF-8 text that is not JSON
\*   "not_utf8"   bytes that are not UTF-8
\*   "manifest"   the bytes of a manifest (read by validate_metadata_file only)
MkFile(name, kind, doc) == [name |-> name, kind |-> kind, doc |-> doc]

\* the slice identifiers: one is a part of the other, as "1" is of "12"
SliceIds == {<<"a">>, <<"a", "b">>}

\* the members an archive is made of
FilePool ==
    { MkFile(<<"metadata.json">>, "manifest", NoDoc),
      MkFile(<<"a", ".json">>, "doc", MkDoc(<<"a">>, <<HostA, HostB>>)),
      MkFile(<<"a", ".json">>, "doc", MkDoc(<<"a">>, <<HostE>>)),
      MkFile(<<"a", "b", ".json">>, "doc", MkDoc(<<"a", "b">>, <<HostD, HostC>>)),
      MkFile(<<"a", "b", ".json">>, "not_utf8", NoDoc),
      MkFile(<<"a", ".json">>, "not_json", NoDoc),
      MkFile(<<"a", "b", ".json">>, "non_object", NoDoc),
      MkFile(<<"a", ".txt">>, "not_utf8", NoDoc) }

RECURSIVE SeqsUpTo(_, _)
SeqsUpTo(S, n) ==
    IF n = 0 THEN {<<>>}
    ELSE LET shorter == SeqsUpTo(S, n - 1)
         IN shorter \cup {Append(s, x) : s \in {t \in shorter : Len(t) = n - 1}, x \in S}

\* what the bytes of a response can be: not an archive at all, or a member list
NotATar == <<MkFile(<<"<not a tar>">>, "not_utf8", NoDoc)>>
Archives == SeqsUpTo(FilePool, MaxFiles) \cup {NotATar}

\* the host counts a manifest declares
DeclaredCounts == {1, 2}

\* a manifest: slice identifier -> declared count, in the dict's order
ManifestEntries == {[id |-> i, n |-> c] : i \in SliceIds, c \in DeclaredCounts}
Manifests ==
    {m \in SeqsUpTo(ManifestEntries, Cardinality(SliceIds)) :
        /\ m # <<>>
        /\ \A i, j \in 1..Len(m) : i # j => m[i].id # m[j].id}

-----------------------------------------------------------------------------
(* extract_report_slices *)

\* lines 211-217: the last member named as a manifest (0 if none), and the
\* positions of the other members whose name contains '.json', in order
MetadataIndex(files) ==
    LET hits == {i \in 1..Len(files) : IsMetadataName(files[i].name)}
    IN IF hits = {} THEN 0 ELSE CHOOSE i \in hits : \A j \in hits : j <= i

JsonFileIndices(files) ==
    {i \in 1..Len(files) : ~IsMetadataName(files[i].name) /\ HasJsonSuffix(files[i].name)}

\* what a call of extract_report_slices ends with: it raises exc, or (exc = "")
\* returns value, which is NoneValue or the list docs
Raises(exc, docs) == [exc |-> exc, none |-> FALSE, docs |-> docs]
ReturnsList(docs) == [exc |-> "", none |-> FALSE, docs |-> docs]
ReturnsNone(docs) == [exc |-> "", none |-> TRUE, docs |-> docs]

\* lines 248-271 without the host-count comparison of line 258
MatchesMetadata_IdOnly(doc, entry) ==
    doc.report_slice_id = entry.id

\* lines 248-271: whether the parsed document matches the manifest entry
MatchesMetadata(doc, entry) ==
    /\ doc.report_slice_id = entry.id
    /\ Len(doc.hosts) = entry.n

\* lines 221-275 with line 274 assigning [report_slice_json] to report_files
\* instead of appending to it
RECURSIVE ScanEntries_Overwrite(_, _, _, _, _)
ScanEntries_Overwrite(files, manifest, e, j, report_files) ==
    IF e > Len(manifest) THEN ReturnsList(report_files)
    ELSE IF j > Len(files) THEN ScanEntries_Overwrite(files, manifest, e + 1, 1, report_files)
    ELSE IF j \notin JsonFileIndices(files)
            \/ ~Contains(files[j].name, manifest[e].id)
         THEN ScanEntries_Overwrite(files, manifest, e, j + 1, report_files)
    ELSE IF files[j].kind = "not_utf8"
         THEN ScanEntries_Overwrite(files, manifest, e, j + 1, report_files)
    ELSE IF files[j].kind = "not_json"
         THEN Raises("FailExtractException", report_files)
    ELSE IF files[j].kind = "non_object"
         THEN ReturnsNone(report_files)
    ELSE IF ~MatchesMetadata(files[j].doc, manifest[e])
         THEN ScanEntries_Overwrite(files, manifest, e, j + 1, report_files)
    ELSE ScanEntries_Overwrite(files, manifest, e, j + 1, <<files[j].doc>>)

\* lines 221-275 without the try of lines 230-240: the UnicodeDecodeError is
\* a ValueError and reaches line 276
RECURSIVE ScanEntries_DecodeFatal(_, _, _, _, _)
ScanEntries_DecodeFatal(files, manifest, e, j, report_files) ==
    IF e > Len(manifest) THEN ReturnsList(report_files)
    ELSE IF j > Len(files) THEN ScanEntries_DecodeFatal(files, manifest, e + 1, 1, report_files)
    ELSE IF j \notin JsonFileIndices(files)
            \/ ~Contains(files[j].name, manifest[e].id)
         THEN ScanEntries_DecodeFatal(files, manifest, e, j + 1, report_files)
    ELSE IF files[j].kind \in {"not_utf8", "not_json"}
         THEN Raises("FailExtractException", report_files)
    ELSE IF files[j].kind = "non_object"
         THEN ReturnsNone(report_files)
    ELSE IF ~MatchesMetadata(files[j].doc, manifest[e])
         THEN ScanEntries_DecodeFatal(files, manifest, e, j + 1, report_files)
    ELSE ScanEntries_DecodeFatal(files, manifest, e, j + 1, Append(report_files, files[j].doc))

\* lines 221-275: the two nested loops, at manifest entry e and member j, with
\* report_files as accumulated so far
RECURSIVE ScanEntries(_, _, _, _, _)
ScanEntries(files, manifest, e, j, report_files) ==
    IF e > Len(manifest) THEN ReturnsList(report_files)                 \* line 275
    ELSE IF j > Len(files) THEN ScanEntries(files, manifest, e + 1, 1, report_files)
    ELSE IF j \notin JsonFileIndices(files)
            \/ ~Contains(files[j].name, manifest[e].id)                    \* line 223
         THEN ScanEntries(files, manifest, e, j + 1, report_files)
    ELSE IF files[j].kind = "not_utf8"                                     \* lines 232-240
         THEN ScanEntries(files, manifest, e, j + 1, report_files)
    ELSE IF files[j].kind = "not_json"                                     \* lines 247, 276
         THEN Raises("FailExtractException", report_files)
    ELSE IF files[j].kind = "non_object"          \* line 248: AttributeError; lines 289-292
         THEN ReturnsNone(report_files)
    ELSE IF ~MatchesMetadata(files[j].doc, manifest[e])                    \* lines 265-271
         THEN ScanEntries(files, manifest, e, j + 1, report_files)
    ELSE ScanEntries(files, manifest, e, j + 1, Append(report_files, files[j].doc))

\* what validate_metadata_file gives: a manifest, or an exception
ValidatorOutcomes ==
    {[exc |-> "", manifest |-> m] : m \in Manifests}
    \cup {[exc |-> x, manifest |-> <<>>] : x \in {"FailExtractException", "ValueError"}}

\* lines 205-292 with line 218 testing `json_files or metadata_file`
ExtractOutcome_EitherEntry(tar, validated) ==
    IF tar = NotATar THEN Raises("FailExtractException", <<>>)
    ELSE IF JsonFileIndices(tar) = {} /\ MetadataIndex(tar) = 0
         THEN Raises("FailExtractException", <<>>)
    ELSE IF validated.exc # ""
         THEN Raises("FailExtractException", <<>>)
    ELSE ScanEntries(tar, validated.manifest, 1, 1, <<>>)

\* lines 205-292, given what validate_metadata_file gives when it is called
ExtractOutcome(tar, validated) ==
    IF tar = NotATar THEN Raises("FailExtractException", <<>>)           \* lines 285-288
    ELSE IF JsonFileIndices(tar) = {} \/ MetadataIndex(tar) = 0           \* lines 218, 280
         THEN Raises("FailExtractException", <<>>)
    ELSE IF validated.exc # ""                                             \* lines 276, 283
         THEN Raises("FailExtractException", <<>>)
    ELSE ScanEntries(tar, validated.manifest, 1, 1, <<>>)

\* whether the call reaches line 220
CallsValidator(tar) ==
    tar # NotATar /\ JsonFileIndices(tar) # {} /\ MetadataIndex(tar) # 0

-----------------------------------------------------------------------------
(* The transformation chain and the transport *)

\* What the modifiers of yuptoo.modifiers do to a host, as one of two chains:
\* the empty chain, and a chain with a rule that rewrites os_release.
ModifierChains == {"none", "os_release"}

RewritesOsRelease(host, chain) ==
    chain = "os_release" /\ host.f["os_release"] \notin {Absent, "RHEL"}

ApplyModifiers(host, chain) ==
    IF RewritesOsRelease(host, chain) THEN [host EXCEPT !.f["os_release"] = "RHEL"]
    ELSE host

\* line 40, then what the chain appends to it
TransformedObj(host, chain) ==
    [removed |-> <<>>,
     modified |-> IF RewritesOsRelease(host, chain) THEN <<"os_release">> ELSE <<>>,
     missing_data |-> <<>>]

\* What the transport does in one send_message call:
\*   "ok"                       every call succeeds
\*   "Producer:KafkaException"  Producer(...) raises KafkaException
\*   "produce:KafkaException"   producer.produce raises KafkaException
\*   "produce:BufferError"      producer.produce raises BufferError (queue full)
TransportOutcomes ==
    {"ok", "Producer:KafkaException", "produce:KafkaException", "produce:BufferError"}

\* lines 145-162: what send_message does under transport outcome t.
\*   raised:   the exception raised inside the try block ("" if none)
\*   producer: whether the local `producer` got bound (line 148)
\*   produced: whether the message was handed to the transport (line 155)
\*   flushed:  whether producer.flush() ran (line 162)
\*   exc:      the exception that leaves send_message ("" if it returns)
send_message(t) ==
    IF t = "Producer:KafkaException"
    THEN \* caught at line 157; line 162 then reads the unbound local `producer`
         [raised |-> "KafkaException", producer |-> FALSE, produced |-> FALSE,
          flushed |-> FALSE, exc |-> "UnboundLocalError"]
    ELSE IF t = "produce:KafkaException"
    THEN \* caught and logged at lines 157-160
         [raised |-> "KafkaException", producer |-> TRUE, produced |-> FALSE,
          flushed |-> TRUE, exc |-> ""]
    ELSE IF t = "produce:BufferError"
    THEN [raised |-> "BufferError", producer |-> TRUE, produced |-> FALSE,
          flushed |-> TRUE, exc |-> "BufferError"]
    ELSE [raised |-> "", producer |-> TRUE, produced |-> TRUE,
          flushed |-> TRUE, exc |-> ""]

\* lines 110-115
UploadMsg(host) ==
    [operation |-> "add_host",
     data |-> host,
     platform_metadata |-> [request_id |-> host.f["system_unique_id"],
                            b64_identity |-> "b64_identity"]]

\* lines 109-116: the exception raised inside the try block ("" if none)
TryBlockException(host, t) ==
    IF host.f["system_unique_id"] = Absent THEN "KeyError"            \* line 113
    ELSE send_message(t).exc                                          \* line 116

\* lines 118-124: the exception the handler raises for an exception of the try
\* block; building KafkaMsgHandlerError reads host['account'] and
\* request_obj['report_platform_id']
HandlerException(host, keys) ==
    IF host.f["account"] = Absent \/ "report_platform_id" \notin keys
    THEN "KeyError"
    ELSE "KafkaMsgHandlerError"

\* lines 107-124: the exception that leaves upload_to_host_inventory_via_kafka
\* ("" if it returns)
UploadException(host, keys, t) ==
    IF TryBlockException(host, t) = "" THEN ""
    ELSE HandlerException(host, keys)

\* whether the call hands the message to the transport
UploadProduces(host, t) ==
    host.f["system_unique_id"] # Absent /\ send_message(t).produced

-----------------------------------------------------------------------------
(* process_report *)

Urls == {Absent, "", "http://storage/report.tar.gz"}

\* the keys of request_obj after lines 17-21
InitialRequestKeys == {"account", "b64_identity", "request_id"}

NoFiles == [none |-> FALSE, docs |-> <<>>]

Init ==
    /\ consumed_message \in [url : Urls]
    /\ HOSTS_TRANSFORMATION_ENABLED \in BOOLEAN
    /\ pc = "download"
    /\ error = ""
    /\ report_tar = <<>>
    /\ valid_slice_ids = <<>>
    /\ extract_exc = ""
    /\ report_json_files = NoFiles
    /\ request_obj = InitialRequestKeys
    /\ slice_idx = 0
    /\ host_idx = 0
    /\ count = 0
    /\ candidate_hosts = <<>>
    /\ hosts_without_facts = <<>>
    /\ transformed_obj = Unbound
    /\ next_uuid = 1
    /\ published = <<>>
    /\ transport_log = <<>>
    /\ http_gets = <<>>

\* a publish error is logged and the loop goes on to the next host
Fail_NextHost(exc) ==
    /\ pc' = IF exc = "KafkaMsgHandlerError" THEN "hosts" ELSE "failed"
    /\ error' = exc

\* the exception is logged and the run goes on to the loop over the slices
Fail_LogAndContinue(exc) ==
    /\ pc' = "slices"
    /\ error' = exc

\* process_report ends with exception exc
Fail(exc) ==
    /\ pc' = "failed"
    /\ error' = exc

\* the test is "report_url is None" instead of "not report_url"
UrlMissing_OnlyNone(message) == message.url = Absent

\* lines 171-172: the test download_report makes before any network call
UrlMissing(message) == ~Truthy(message.url)

\* line 22, lines 165-196
Download ==
    /\ pc = "download"
    /\ \/ /\ UrlMissing(consumed_message)                      \* lines 172-175, 189
          /\ Fail("FailDownloadException")
          /\ UNCHANGED <<report_tar, http_gets>>
       \/ /\ ~UrlMissing(consumed_message)                     \* line 181 raises: 192
          /\ http_gets' = Append(http_gets, consumed_message.url)
          /\ Fail("FailDownloadException")
          /\ UNCHANGED report_tar
       \/ /\ ~UrlMissing(consumed_message)                     \* lines 181, 187
          /\ http_gets' = Append(http_gets, consumed_message.url)
          /\ \E content \in Archives : report_tar' = content
          /\ pc' = "extract"
          /\ UNCHANGED error
    /\ UNCHANGED <<consumed_message, HOSTS_TRANSFORMATION_ENABLED, valid_slice_ids,
                   extract_exc, report_json_files, request_obj, slice_idx, host_idx,
                   count, candidate_hosts, hosts_without_facts, transformed_obj,
                   next_uuid, published, transport_log>>

\* line 23, lines 199-292.  validate_metadata_file, when it returns, has put
\* report_platform_id into request_obj: lines 52 and 124 read it from there.
Extract ==
    /\ pc = "extract"
    /\ \E validated \in ValidatorOutcomes :
         LET out == ExtractOutcome(report_tar, validated)
             returned == CallsValidator(report_tar) /\ validated.exc = ""
         IN /\ valid_slice_ids' = IF returned THEN validated.manifest ELSE <<>>
            /\ request_obj' = IF returned THEN request_obj \cup {"report_platform_id"}
                              ELSE request_obj
            /\ extract_exc' = out.exc
            /\ \/ /\ out.exc # ""
                  /\ Fail(out.exc)
                  /\ UNCHANGED report_json_files
               \/ /\ out.exc = ""
                  /\ report_json_files' = [none |-> out.none,
                                           docs |-> IF out.none THEN <<>> ELSE out.docs]
                  /\ pc' = "slices"
                  /\ UNCHANGED error
    /\ UNCHANGED <<consumed_message, HOSTS_TRANSFORMATION_ENABLED, report_tar, slice_idx,
                   host_idx, count, candidate_hosts, hosts_without_facts,
                   transformed_obj, next_uuid, published, transport_log, http_gets>>

\* line 26: the head of the loop over report_json_files, and lines 27-31
NextSlice ==
    /\ pc = "slices"
    /\ \/ /\ report_json_files.none               \* iterating None raises TypeError
          /\ Fail("TypeError")
          /\ UNCHANGED <<slice_idx, host_idx, count, candidate_hosts, hosts_without_facts>>
       \/ /\ ~report_json_files.none
          /\ slice_idx < Len(report_json_files.docs)
          /\ slice_idx' = slice_idx + 1
          /\ host_idx' = 0
          /\ count' = 0
          /\ candidate_hosts' = <<>>
          /\ hosts_without_facts' = <<>>
          /\ pc' = "hosts"
          /\ UNCHANGED error
       \/ /\ ~report_json_files.none              \* the loop is over: return
          /\ slice_idx = Len(report_json_files.docs)
          /\ pc' = "done"
          /\ UNCHANGED <<error, slice_idx, host_idx, count, candidate_hosts,
                         hosts_without_facts>>
    /\ UNCHANGED <<consumed_message, HOSTS_TRANSFORMATION_ENABLED, report_tar,
                   valid_slice_ids, extract_exc, report_json_files, request_obj,
                   transformed_obj, next_uuid, published, transport_log, http_gets>>

report_slice == report_json_files.docs[slice_idx]
host == report_slice.hosts[host_idx]

\* the host at host_idx of the current slice replaced by h (hosts are mutated in place)
WithHost(h) ==
    [report_json_files EXCEPT !.docs[slice_idx].hosts[host_idx] = h]

\* the uuid is drawn once per slice, outside the loop over its hosts
WithYupanaHostId_PerSlice(h, uuid) == [h EXCEPT !.yupana_host_id = slice_idx]

\* lines 33-34: host['yupana_host_id'] = str(uuid.uuid4())
WithYupanaHostId(h, uuid) == [h EXCEPT !.yupana_host_id = uuid]

\* lines 32-37 and 53-54: the next host gets its id and is classified
ClassifyHost ==
    /\ pc = "hosts"
    /\ host_idx < Len(report_slice.hosts)
    /\ host_idx' = host_idx + 1
    /\ next_uuid' = next_uuid + 1
    /\ LET h == WithYupanaHostId(report_slice.hosts[host_idx + 1], next_uuid)
       IN \/ /\ has_canonical_facts(h)
             /\ report_json_files' =
                  [report_json_files EXCEPT !.docs[slice_idx].hosts[host_idx + 1] =
                      [h EXCEPT !.report_slice_id = report_slice.report_slice_id]]
             /\ candidate_hosts' = Append(candidate_hosts, host_idx + 1)
             /\ pc' = "transform"
             /\ UNCHANGED hosts_without_facts
          \/ /\ ~has_canonical_facts(h)
             /\ report_json_files' =
                  [report_json_files EXCEPT !.docs[slice_idx].hosts[host_idx + 1] = h]
             /\ hosts_without_facts' = Append(hosts_without_facts, host_idx + 1)
             /\ UNCHANGED <<pc, candidate_hosts>>
    /\ UNCHANGED <<consumed_message, HOSTS_TRANSFORMATION_ENABLED, error, report_tar,
                   valid_slice_ids, extract_exc, request_obj, slice_idx, count,
                   transformed_obj, published, transport_log, http_gets>>

\* lines 39-47: the modifiers, count, print_transformed_info
Transform ==
    /\ pc = "transform"
    /\ count' = count + 1
    /\ \/ /\ HOSTS_TRANSFORMATION_ENABLED
          /\ \E chain \in ModifierChains :
               /\ transformed_obj' = TransformedObj(host, chain)
               /\ report_json_files' = WithHost(ApplyModifiers(host, chain))
          /\ pc' = "upload"
          /\ UNCHANGED error
       \/ /\ ~HOSTS_TRANSFORMATION_ENABLED        \* line 47 reads the local that
          /\ transformed_obj = Unbound            \* line 40 alone binds
          /\ Fail("UnboundLocalError")
          /\ UNCHANGED <<transformed_obj, report_json_files>>
    /\ UNCHANGED <<consumed_message, HOSTS_TRANSFORMATION_ENABLED, report_tar,
                   valid_slice_ids, extract_exc, request_obj, slice_idx, host_idx,
                   candidate_hosts, hosts_without_facts, next_uuid, published,
                   transport_log, http_gets>>

\* line 48, lines 107-124 and 145-162
Upload ==
    /\ pc = "upload"
    /\ \E t \in TransportOutcomes :
         /\ transport_log' = IF host.f["system_unique_id"] = Absent THEN transport_log
                             ELSE Append(transport_log, send_message(t))
         /\ published' = IF UploadProduces(host, t)
                         THEN Append(published, UploadMsg(host)) ELSE published
         /\ \/ /\ UploadException(host, request_obj, t) # ""
               /\ Fail(UploadException(host, request_obj, t))
            \/ /\ UploadException(host, request_obj, t) = ""
               /\ pc' = "hosts"
               /\ UNCHANGED error
    /\ UNCHANGED <<consumed_message, HOSTS_TRANSFORMATION_ENABLED, report_tar,
                   valid_slice_ids, extract_exc, report_json_files, request_obj,
                   slice_idx, host_idx, count, candidate_hosts, hosts_without_facts,
                   transformed_obj, next_uuid, http_gets>>

\* lines 57-74, once the loop over the slice's hosts is over
EndSlice ==
    /\ pc = "hosts"
    /\ host_idx = Len(report_slice.hosts)
    /\ \/ /\ candidate_hosts = <<>>                                     \* lines 70-74
          /\ Fail("QPCReportException")
       \/ /\ candidate_hosts # <<>>
          /\ pc' = "slices"
          /\ UNCHANGED error
    /\ UNCHANGED <<consumed_message, HOSTS_TRANSFORMATION_ENABLED, report_tar,
                   valid_slice_ids, extract_exc, report_json_files, request_obj,
                   slice_idx, host_idx, count, candidate_hosts, hosts_without_facts,
                   transformed_obj, next_uuid, published, transport_log, http_gets>>

Next ==
    \/ Download
    \/ Extract
    \/ NextSlice
    \/ ClassifyHost
    \/ Transform
    \/ Upload
    \/ EndSlice

Spec == Init /\ [][Next]_vars

-----------------------------------------------------------------------------
(* The classification step alone, over every combination of identity facts *)

StringFactValues == {Absent, Null, "", "v"}
ListFactValues == {Absent, EmptyList, "[v]"}
ListFacts == {"ip_addresses", "mac_addresses"}

\* every host whose seven identity facts take the values above, with and
\* without unrelated fields
FactHosts ==
    {[f |-> [k \in HostKeys |-> IF k \in IdentityFacts THEN facts[k] ELSE other],
      yupana_host_id |-> 0,
      report_slice_id |-> NoSliceId] :
        facts \in {g \in [IdentityFacts -> StringFactValues \cup ListFactValues] :
                     \A k \in IdentityFacts :
                        g[k] \in (IF k \in ListFacts THEN ListFactValues
                                  ELSE StringFactValues)},
        other \in {Absent, "x"}}

\* process_report at line 32, about to classify the only host of the only slice
InitFacts ==
    /\ consumed_message = [url |-> "http://storage/report.tar.gz"]
    /\ HOSTS_TRANSFORMATION_ENABLED = TRUE
    /\ pc = "hosts"
    /\ error = ""
    /\ \E h \in FactHosts :
         /\ report_tar = <<MkFile(<<"metadata.json">>, "manifest", NoDoc),
                           MkFile(<<"a", ".json">>, "doc", MkDoc(<<"a">>, <<h>>))>>
         /\ report_json_files = [none |-> FALSE, docs |-> <<MkDoc(<<"a">>, <<h>>)>>]
    /\ valid_slice_ids = <<[id |-> <<"a">>, n |-> 1]>>
    /\ extract_exc = ""
    /\ request_obj = InitialRequestKeys \cup {"report_platform_id"}
    /\ slice_idx = 1
    /\ host_idx = 0
    /\ count = 0
    /\ candidate_hosts = <<>>
    /\ hosts_without_facts = <<>>
    /\ transformed_obj = Unbound
    /\ next_uuid = 1
    /\ published = <<>>
    /\ transport_log = <<>>
    /\ http_gets = <<"http://storage/report.tar.gz">>

NextFacts == ClassifyHost

SpecFacts == InitFacts /\ [][NextFacts]_vars

-----------------------------------------------------------------------------
(* process_report from line 23 on, for the archives that hold a manifest and,
   among up to MaxFiles data entries, one whose bytes are not valid UTF-8 *)

DataEntryPool == {file \in FilePool : HasJsonSuffix(file.name) /\ ~IsMetadataName(file.name)}

UndecodableArchives ==
    {<<MkFile(<<"metadata.json">>, "manifest", NoDoc)>> \o entries :
        entries \in {t \in SeqsUpTo(DataEntryPool, MaxFiles) :
                        \E j \in 1..Len(t) : t[j].kind = "not_utf8"}}

\* process_report at line 23: download_report has returned the archive
InitUndecodable ==
    /\ consumed_message = [url |-> "http://storage/report.tar.gz"]
    /\ HOSTS_TRANSFORMATION_ENABLED \in BOOLEAN
    /\ pc = "extract"
    /\ error = ""
    /\ report_tar \in UndecodableArchives
    /\ valid_slice_ids = <<>>
    /\ extract_exc = ""
    /\ report_json_files = NoFiles
    /\ request_obj = InitialRequestKeys
    /\ slice_idx = 0
    /\ host_idx = 0
    /\ count = 0
    /\ candidate_hosts = <<>>
    /\ hosts_without_facts = <<>>
    /\ transformed_obj = Unbound
    /\ next_uuid = 1
    /\ published = <<>>
    /\ transport_log = <<>>
    /\ http_gets = <<"http://storage/report.tar.gz">>

NextUndecodable ==
    \/ Extract
    \/ NextSlice
    \/ ClassifyHost
    \/ Transform
    \/ Upload
    \/ EndSlice

SpecUndecodable == InitUndecodable /\ [][NextUndecodable]_vars

-----------------------------------------------------------------------------
(* Vocabulary of the claims *)

Terminated == pc \in {"done", "failed"}

\* extract_report_slices was called and has ended
ExtractEnded == pc \notin {"download", "extract"} /\ error # "FailDownloadException"

\* ... and returned a list
ExtractReturnedList == ExtractEnded /\ extract_exc = "" /\ ~report_json_files.none

\* a value that is present and not empty
NonEmptyValue(v) == v # Absent /\ v # Null /\ v # "" /\ v # EmptyList

\* a candidate record: at least one identity fact is present and not empty
IsCandidate(h) == \E k \in IdentityFacts : NonEmptyValue(h.f[k])

\* the accepted slices
AcceptedSlices == report_json_files.docs

\* the (slice, position) pairs of the candidate records of the accepted slices
CandidateRecords ==
    UNION {{<<s, i>> : i \in {n \in 1..Len(AcceptedSlices[s].hosts) :
                                  IsCandidate(AcceptedSlices[s].hosts[n])}} :
           s \in 1..Len(AcceptedSlices)}

-----------------------------------------------------------------------------
(* C1 *)

\* C1: whenever extraction returned a list and no record of any accepted slice
\* is a candidate (also when no slice was accepted), process_report ends with
\* QPCReportException.
C1_NoCandidatesFails ==
    (Terminated /\ ExtractReturnedList /\ CandidateRecords = {})
        => (pc = "failed" /\ error = "QPCReportException")

(* C2 *)

\* C2: whenever some record of an accepted slice is a candidate, process_report
\* does not end with QPCReportException.
C2_CandidateNoFailure ==
    (Terminated /\ ExtractReturnedList /\ CandidateRecords # {})
        => error # "QPCReportException"

(* C3 *)

\* C3: when QPCReportException is raised, every accepted slice has been iterated
\* and classified: no accepted slice remains unprocessed.
C3_RaisedAfterAllSlices ==
    error = "QPCReportException"
        => (slice_idx = Len(AcceptedSlices)
            /\ \A s \in 1..Len(AcceptedSlices) :
                 \A i \in 1..Len(AcceptedSlices[s].hosts) :
                    AcceptedSlices[s].hosts[i].yupana_host_id # 0)

-----------------------------------------------------------------------------
(* Vocabulary of the claims about extract_report_slices *)

\* extract_report_slices has ended and no host has been touched since
ExtractJustEnded == ExtractEnded /\ next_uuid = 1

\* validate_metadata_file returned the manifest valid_slice_ids
ManifestValidated == ExtractEnded /\ "report_platform_id" \in request_obj

\* the data entries: members that are no manifest and whose name contains '.json'
DataEntries ==
    {j \in 1..Len(report_tar) :
        /\ ~IsMetadataName(report_tar[j].name)
        /\ \E i \in 1..Len(report_tar[j].name) : report_tar[j].name[i] = ".json"}

\* (manifest entry, data entry) pairs where the entry's name contains the
\* slice identifier
MatchedPairs ==
    {p \in (1..Len(valid_slice_ids)) \X DataEntries :
        Contains(report_tar[p[2]].name, valid_slice_ids[p[1]].id)}

\* the matched pairs whose entry parses to a document
DocPairs == {p \in MatchedPairs : report_tar[p[2]].kind = "doc"}

PairDoc(p) == report_tar[p[2]].doc

\* the document reports the manifest entry's identifier and host count
Agrees(p) ==
    /\ PairDoc(p).report_slice_id = valid_slice_ids[p[1]].id
    /\ Len(PairDoc(p).hosts) = valid_slice_ids[p[1]].n

\* the order in which the pairs are examined
Before(p, q) == p[1] < q[1] \/ (p[1] = q[1] /\ p[2] < q[2])

InReturnedList(doc) ==
    \E k \in 1..Len(report_json_files.docs) : report_json_files.docs[k] = doc

-----------------------------------------------------------------------------
(* C4 *)

\* C4 as stated: a document that disagrees with a manifest entry matched to it
\* is not in the returned list.
C4_MismatchNotReturned ==
    (ExtractJustEnded /\ ExtractReturnedList)
        => \A p \in DocPairs : ~Agrees(p) => ~InReturnedList(PairDoc(p))

\* C4 amended: a matched document that disagrees with the manifest entry adds
\* nothing to the returned list and raises nothing: when every matched entry
\* decodes to a document or fails to decode, a list is returned, and it holds
\* exactly the documents of the agreeing pairs, in the order examined; so every
\* returned document has the identifier and host count of a manifest entry.
C4_ReturnedAgreeWithManifest ==
    (ExtractJustEnded /\ ManifestValidated
        /\ \A p \in MatchedPairs : report_tar[p[2]].kind \in {"doc", "not_utf8"})
        => /\ ExtractReturnedList
           /\ Len(report_json_files.docs) = Cardinality({p \in DocPairs : Agrees(p)})
           /\ \A p \in DocPairs :
                Agrees(p) =>
                    report_json_files.docs[
                        1 + Cardinality({q \in DocPairs : Agrees(q) /\ Before(q, p)})]
                      = PairDoc(p)

\* a list was returned although a pair examined first disagreed, and a pair
\* examined after it was accepted
C4_Witness ==
    /\ ExtractJustEnded /\ ExtractReturnedList
    /\ \E p, q \in DocPairs : ~Agrees(p) /\ Agrees(q) /\ Before(p, q)
    /\ Len(report_json_files.docs) = 1

(* C5 *)

\* C5 as stated: a data entry that agrees with its manifest entry is in the
\* list extract_report_slices returns, whatever the other entries are.
C5_AgreeingAlwaysReturned ==
    (ExtractJustEnded /\ ManifestValidated)
        => \A p \in DocPairs :
             Agrees(p) => (ExtractReturnedList /\ InReturnedList(PairDoc(p)))

\* C5 amended: whenever extract_report_slices returns a list, every data entry
\* that agrees with its manifest entry is in it, unchanged.
C5_AgreeingReturned ==
    (ExtractJustEnded /\ ExtractReturnedList)
        => \A p \in DocPairs : Agrees(p) => InReturnedList(PairDoc(p))

\* an agreeing entry was returned from an archive that also holds an entry
\* that does not decode and one that disagrees
C5_Witness ==
    /\ ExtractJustEnded /\ ExtractReturnedList
    /\ \E p \in DocPairs : Agrees(p) /\ InReturnedList(PairDoc(p))
    /\ \E p \in MatchedPairs : report_tar[p[2]].kind = "not_utf8"
    /\ \E p \in DocPairs : ~Agrees(p)

(* C6 *)

\* C6: an archive without a manifest entry, or without a data entry, makes
\* extract_report_slices fail with FailExtractException before any record is
\* examined or published.
C6_MissingEntriesFail ==
    (ExtractEnded
        /\ (DataEntries = {} \/ \A j \in 1..Len(report_tar) : ~IsMetadataName(report_tar[j].name)))
        => /\ pc = "failed"
           /\ error = "FailExtractException"
           /\ extract_exc = "FailExtractException"
           /\ next_uuid = 1
           /\ slice_idx = 0
           /\ published = <<>>
           /\ transport_log = <<>>

\* the call failed on an archive with data entries and no manifest
C6_Witness ==
    /\ pc = "failed" /\ extract_exc = "FailExtractException"
    /\ report_tar # NotATar
    /\ DataEntries # {}
    /\ \A j \in 1..Len(report_tar) : ~IsMetadataName(report_tar[j].name)

(* C7 *)

\* C7: extract_report_slices ends in one of two ways: it returns a list of
\* documents, or it raises FailExtractException.
C7_ListOrFailExtract ==
    ExtractEnded
        => \/ extract_exc = "FailExtractException"
           \/ (extract_exc = "" /\ ~report_json_files.none)

-----------------------------------------------------------------------------
(* C8 *)

\* C8: has_canonical_facts is true of a record exactly when one of the seven
\* identity facts is present and not empty, whichever it is and whatever the
\* other fields are: the record classified at lines 35-54 lands in
\* candidate_hosts in that case and in hosts_without_facts otherwise.
C8_CandidateIffIdentityFact ==
    host_idx = 1
        => /\ IsCandidate(host) <=> (candidate_hosts = <<1>> /\ hosts_without_facts = <<>>)
           /\ ~IsCandidate(host) <=> (candidate_hosts = <<>> /\ hosts_without_facts = <<1>>)
           /\ has_canonical_facts(host) <=> IsCandidate(host)

\* a record was accepted on its last identity fact alone, the others being
\* absent or empty and an unrelated field being present
C8_Witness ==
    /\ host_idx = 1
    /\ candidate_hosts = <<1>>
    /\ host.f["subscription_manager_id"] = "v"
    /\ \A k \in IdentityFacts \ {"subscription_manager_id"} : ~NonEmptyValue(host.f[k])
    /\ host.f["bios_uuid"] = ""
    /\ host.f["account"] = "x"

-----------------------------------------------------------------------------
(* C9 *)

\* no publish call failed: none raised, and the transport raised in none
NoPublishFailed ==
    /\ error \notin {"KafkaMsgHandlerError", "KeyError"}
    /\ \A i \in 1..Len(transport_log) : transport_log[i].raised = ""

\* C9: a run in which the fetch and the extraction succeed and no publish fails
\* completes, having published exactly one add_host envelope per candidate
\* record of the accepted slices, carrying that record.  Stated for the runs
\* with transformation enabled and at least one candidate.
C9_CandidatesPublished ==
    (Terminated /\ ExtractReturnedList /\ NoPublishFailed
        /\ HOSTS_TRANSFORMATION_ENABLED /\ CandidateRecords # {})
        => /\ pc = "done"
           /\ Len(published) = Cardinality(CandidateRecords)
           /\ \A c \in CandidateRecords :
                \E k \in 1..Len(published) :
                   /\ published[k].operation = "add_host"
                   /\ published[k].data = AcceptedSlices[c[1]].hosts[c[2]]

(* C10 *)

\* C10: an exception raised while building or submitting the envelope, also
\* one the transport raises inside send_message, leaves
\* upload_to_host_inventory_via_kafka as KafkaMsgHandlerError: the call does
\* not return after it, and no other error kind leaves the call.
C10_PublishErrorsTyped ==
    /\ \A i \in 1..Len(transport_log) :
         transport_log[i].raised # ""
            => (i = Len(transport_log) /\ pc = "failed" /\ error = "KafkaMsgHandlerError")
    /\ error # "KeyError"

-----------------------------------------------------------------------------
(* C11 *)

\* nothing of the loop over the slices has happened
NoRecordTouched ==
    /\ slice_idx = 0
    /\ next_uuid = 1
    /\ count = 0
    /\ candidate_hosts = <<>>
    /\ hosts_without_facts = <<>>
    /\ transformed_obj = Unbound
    /\ published = <<>>
    /\ transport_log = <<>>

\* C11: when download_report or extract_report_slices raises, process_report
\* has ended with that very exception, FailDownloadException or
\* FailExtractException, and no record was classified, transformed or
\* published; a download that failed also means extraction never ran.
C11_FetchExtractFailuresEndRun ==
    /\ (pc # "download" /\ UrlMissing(consumed_message))
          => error = "FailDownloadException"
    /\ extract_exc # "" => error = extract_exc
    /\ error \in {"FailDownloadException", "FailExtractException"}
          => /\ pc = "failed"
             /\ NoRecordTouched
             /\ report_json_files = NoFiles
    /\ error = "FailDownloadException"
          => /\ extract_exc = ""
             /\ valid_slice_ids = <<>>
             /\ request_obj = InitialRequestKeys

\* extraction raised on an archive that was downloaded and has both kinds of entry
C11_Witness ==
    /\ pc = "failed"
    /\ error = "FailExtractException"
    /\ http_gets # <<>>
    /\ CallsValidator(report_tar)
    /\ NoRecordTouched

-----------------------------------------------------------------------------
(* C12 *)

\* download_report has ended
DownloadEnded == pc # "download"

DownloadRaised == DownloadEnded /\ error = "FailDownloadException"

-----------------------------------------------------------------------------
(* C13 *)

\* the hosts of the accepted slices, as <<slice index, host index>>
Records ==
    UNION {{<<k, i>> : i \in 1..Len(AcceptedSlices[k].hosts)} : k \in 1..Len(AcceptedSlices)}

RecordAt(r) == AcceptedSlices[r[1]].hosts[r[2]]

\* the loop of line 32 has taken the record
Reached(r) ==
    \/ r[1] < slice_idx
    \/ r[1] = slice_idx /\ r[2] <= host_idx

\* C13: every record the loop has taken carries an id, set before it was put on
\* candidate_hosts or hosts_without_facts, and no two records of the run, nor
\* two published messages, carry the same id.
C13_FreshCorrelationIds ==
    /\ \A r \in Records : Reached(r) <=> RecordAt(r).yupana_host_id # 0
    /\ \A r, q \in Records :
          (Reached(r) /\ Reached(q) /\ r # q)
             => RecordAt(r).yupana_host_id # RecordAt(q).yupana_host_id
    /\ \A i, j \in 1..Len(published) :
          i # j => published[i].data.yupana_host_id # published[j].data.yupana_host_id

\* two candidates of two slices were published, a discarded record between them
C13_Witness ==
    /\ Len(published) = 2
    /\ published[1].data.report_slice_id # published[2].data.report_slice_id
    /\ \E r \in Records : Reached(r) /\ ~IsCandidate(RecordAt(r))

-----------------------------------------------------------------------------
(* C14 *)

\* C14: once upload_to_host_inventory_via_kafka has raised KafkaMsgHandlerError,
\* process_report has ended with it: the failing record is the last one that got
\* an id, it is not among the published messages, and no record after it, in
\* its slice or a later one, was touched.
C14_PublishErrorEndsRun ==
    error = "KafkaMsgHandlerError" =>
       /\ pc = "failed"
       /\ host.yupana_host_id = next_uuid - 1
       /\ \A i \in 1..Len(published) :
             published[i].data.yupana_host_id # host.yupana_host_id
       /\ \A r \in Records : ~Reached(r) => RecordAt(r) \in {HostA, HostB, HostC, HostD, HostE}
       /\ \A i \in 1..Len(transport_log) : i < Len(transport_log) => transport_log[i].exc = ""

\* the first record's publish failed while records of this and of a later slice remain
C14_Witness ==
    /\ error = "KafkaMsgHandlerError"
    /\ host_idx < Len(report_slice.hosts)
    /\ slice_idx < Len(AcceptedSlices)

-----------------------------------------------------------------------------
(* C15 *)

\* C15: when a matched data entry decodes as UTF-8 but does not parse as JSON,
\* extract_report_slices raises FailExtractException and returns no slice,
\* whatever was accepted before.
C15_UnparsableFailsExtraction ==
    (ManifestValidated /\ \E p \in MatchedPairs : report_tar[p[2]].kind = "not_json")
        => /\ extract_exc = "FailExtractException"
           /\ error = "FailExtractException"
           /\ report_json_files = NoFiles

-----------------------------------------------------------------------------
(* C16 *)

\* a matched data entry is not valid UTF-8
UndecodableMatched == \E p \in MatchedPairs : report_tar[p[2]].kind = "not_utf8"

AgreeingPairs == {p \in DocPairs : Agrees(p)}

-----------------------------------------------------------------------------
(* C17 *)

\* C17: when the archive has a manifest and JSON data entries and no slice
\* identifier of the manifest is contained in the name of any data entry,
\* extract_report_slices raises FailExtractException instead of returning.
C17_NothingMatchedFails ==
    (ManifestValidated /\ MatchedPairs = {})
        => /\ extract_exc = "FailExtractException"
           /\ error = "FailExtractException"

-----------------------------------------------------------------------------
(* C18 *)

\* the fields of the hosts as they were extracted from the archive
ExtractedFields ==
    UNION {{report_tar[j].doc.hosts[i].f : i \in 1..Len(report_tar[j].doc.hosts)}
              : j \in 1..Len(report_tar)}

\* C18: with HOSTS_TRANSFORMATION_ENABLED false no modifier runs and, unless a
\* publish call fails, every candidate the loop has taken is published, its
\* fields as extracted, with its correlation id and slice id added.
C18_DisabledStillPublishes ==
    (~HOSTS_TRANSFORMATION_ENABLED /\ Terminated /\ NoPublishFailed)
        => /\ error # "UnboundLocalError"
           /\ \A r \in Records :
                (Reached(r) /\ IsCandidate(RecordAt(r)))
                   => /\ RecordAt(r).f \in ExtractedFields
                      /\ \E k \in 1..Len(published) : published[k].data = RecordAt(r)

-----------------------------------------------------------------------------
(* C19 *)

\* C19: every send_message call that acquired the transport, or tried to,
\* flushed it before it returned or raised, and what left the call is what the
\* try block and its handler decided: the flush step put no other error in
\* its place.
C19_AlwaysFlushedNoNewError ==
    \A i \in 1..Len(transport_log) :
       /\ transport_log[i].flushed
       /\ transport_log[i].exc \in {"", transport_log[i].raised}

-----------------------------------------------------------------------------
(* C20 *)

\* C20: no two documents of the list extract_report_slices returns have the
\* same report_slice_id, also when several data entries carry the identifier
\* in their names; so no two published messages carry the same record of the
\* same slice.
C20_SliceAcceptedOnce ==
    ExtractReturnedList =>
       /\ \A k, l \in 1..Len(AcceptedSlices) :
             k # l => AcceptedSlices[k].report_slice_id # AcceptedSlices[l].report_slice_id
       /\ \A i, j \in 1..Len(published) :
             i # j => <<published[i].data.f, published[i].data.report_slice_id>>
                         # <<published[j].data.f, published[j].data.report_slice_id>>

====
